---- MODULE Spec2Model ----
(***************************************************************************)
(* A model of flipkart_scraper.py: get_page, parse_books and scrape_books  *)
(* (fetch -> parse -> accumulate -> price cleaning -> table).              *)
(*                                                                         *)
(* Python values are represented as follows.                               *)
(*   str that is processed character by character (price text, stock      *)
(*       text): a sequence of one-character strings;                       *)
(*   str that is only copied (title attribute, class tokens): a string;    *)
(*   None-or-str (rating): <<>> for None, <<tok>> for the string tok;      *)
(*   float: [num, scale], the decimal num / 10^scale in lowest form;       *)
(*   a raised exception: [raised_in, line, type, detail].                  *)
(***************************************************************************)
EXTENDS Integers, Sequences, FiniteSets, TLC

VARIABLES pc, num_pages, page, all_books, fetched, served, df, error

vars == <<pc, num_pages, page, all_books, fetched, served, df, error>>

-----------------------------------------------------------------------------
(* Bounds of the model *)

\* largest page count passed to scrape_books
MaxPages == 3

\* most product nodes the site serves, over all pages of one run
MaxArticles == 2

\* longest price text given to the price cleaning step in SpecNorm
MaxLen == 4

-----------------------------------------------------------------------------
(* Characters and strings *)

DigitChars == <<"0", "1", "2", "3", "4", "5", "6", "7", "8", "9">>

Digits == {DigitChars[i] : i \in 1..10}

DigitVal(c) == (CHOOSE i \in 1..10 : DigitChars[i] = c) - 1

Whitespace == {" ", "\n", "\t"}

\* the character class kept by the pattern [^0-9.] of the price cleaning
KeepChars == Digits \cup {"."}

\* str.strip(): leading and trailing whitespace removed
RECURSIVE LStrip(_)
LStrip(s) ==
    IF s # <<>> /\ Head(s) \in Whitespace THEN LStrip(Tail(s)) ELSE s

RECURSIVE RStrip(_)
RStrip(s) ==
    IF s # <<>> /\ s[Len(s)] \in Whitespace
    THEN RStrip(SubSeq(s, 1, Len(s) - 1))
    ELSE s

\* Tag.get_text(strip=True) of an element holding one text node
get_text(s) == LStrip(RStrip(s))

-----------------------------------------------------------------------------
(* Price cleaning: .str.replace(r"[^0-9.]", "", regex=True).astype(float) *)

\* StripPrice with the pattern [^0-9.-]: a minus sign is kept
StripPriceKeepingSign(s) == SelectSeq(s, LAMBDA c : c \in KeepChars \cup {"-"})

\* re.sub of [^0-9.] by "": the kept characters, in their order
StripPrice(s) == SelectSeq(s, LAMBDA c : c \in KeepChars)

CountDots(s) == Len(SelectSeq(s, LAMBDA c : c = "."))

DigitsOf(s) == SelectSeq(s, LAMBDA c : c \in Digits)

\* the text without a leading sign
Unsigned(s) == IF s # <<>> /\ Head(s) \in {"-", "+"} THEN Tail(s) ELSE s

\* float(s) succeeds: an optional sign, then digits with at most one point
\* and at least one digit (exponents, inf, nan, underscores and blanks need
\* characters outside the alphabet of the model)
IsFloatLiteral(s) ==
    LET u == Unsigned(s)
    IN  /\ \A i \in 1..Len(u) : u[i] \in KeepChars
        /\ CountDots(u) <= 1
        /\ DigitsOf(u) # <<>>

RECURSIVE DecimalValue(_)
DecimalValue(ds) ==
    IF ds = <<>> THEN 0
    ELSE 10 * DecimalValue(SubSeq(ds, 1, Len(ds) - 1)) + DigitVal(ds[Len(ds)])

\* number of digits after the decimal point
FractionLen(u) ==
    IF CountDots(u) = 0 THEN 0
    ELSE LET dot == CHOOSE i \in 1..Len(u) : u[i] = "."
         IN  Len(u) - dot

\* num / 10^scale in lowest form, so that equal numbers are equal values
RECURSIVE Reduce(_, _)
Reduce(num, scale) ==
    IF scale > 0 /\ num % 10 = 0 THEN Reduce(num \div 10, scale - 1)
    ELSE [num |-> num, scale |-> scale]

\* float(s) for a text on which it succeeds
ParseFloat(s) ==
    LET u == Unsigned(s)
        m == DecimalValue(DigitsOf(u))
    IN  IF s # <<>> /\ Head(s) = "-"
        THEN LET r == Reduce(m, FractionLen(u))
             IN  [num |-> 0 - r.num, scale |-> r.scale]
        ELSE Reduce(m, FractionLen(u))

-----------------------------------------------------------------------------
(* Exceptions and optional values *)

None == <<>>

Some(v) == <<v>>

NoError == [raised_in |-> "", line |-> 0, type |-> "", detail |-> <<>>]

Raise(fn, ln, ty, det) ==
    [raised_in |-> fn, line |-> ln, type |-> ty, detail |-> det]

-----------------------------------------------------------------------------
(* parse_books: one article.product_pod node is                            *)
(*   [heading, title, price, avail, rating] with                           *)
(*   heading  "no_h3" | "no_a" | "no_title" | "ok" (what art.h3.a["title"] *)
(*            finds), title the attribute's value when heading = "ok",     *)
(*   price, avail  [present, text]: the p.price_color and                  *)
(*            p.instock.availability elements,                             *)
(*   rating   [present, class]: the p.star-rating element and its class    *)
(*            token list.                                                  *)

\* line 41: art.h3.a["title"]
TitleError(art) ==
    CASE art.heading = "no_h3"    -> Raise("parse_books", 41, "AttributeError", <<>>)
      [] art.heading = "no_a"     -> Raise("parse_books", 41, "TypeError", <<>>)
      [] art.heading = "no_title" -> Raise("parse_books", 41, "KeyError", <<"title">>)
      [] OTHER                    -> NoError

\* RatingOf reading class[-1] without the length test
RatingOfLastToken(tag) ==
    IF tag.present THEN Some(tag.class[Len(tag.class)]) ELSE None

\* line 51: the second class token, or None
RatingOf(tag) ==
    IF tag.present /\ Len(tag.class) > 1 THEN Some(tag.class[2]) ELSE None

\* ParseArticle with an absent price or stock element read as empty text
ParseArticleLenient(art) ==
    IF art.heading # "ok"
    THEN [ok |-> FALSE, err |-> TitleError(art), book |-> <<>>]
    ELSE [ok |-> TRUE, err |-> NoError,
          book |-> <<[title        |-> art.title,
                      price_raw    |-> get_text(art.price.text),
                      availability |-> get_text(art.avail.text),
                      rating       |-> RatingOf(art.rating)]>>]

\* lines 41-60: the record of one node, or the exception its extraction raises
ParseArticle(art) ==
    IF art.heading # "ok"
    THEN [ok |-> FALSE, err |-> TitleError(art), book |-> <<>>]
    ELSE IF ~art.price.present
    THEN [ok |-> FALSE, book |-> <<>>,
          err |-> Raise("parse_books", 44, "AttributeError", <<>>)]
    ELSE IF ~art.avail.present
    THEN [ok |-> FALSE, book |-> <<>>,
          err |-> Raise("parse_books", 47, "AttributeError", <<>>)]
    ELSE [ok |-> TRUE, err |-> NoError,
          book |-> <<[title        |-> art.title,
                      price_raw    |-> get_text(art.price.text),
                      availability |-> get_text(art.avail.text),
                      rating       |-> RatingOf(art.rating)]>>]

\* lines 39-60: the loop over the nodes, from node i with books gathered
RECURSIVE ParseFrom(_, _, _)
ParseFrom(articles, i, books) ==
    IF i > Len(articles)
    THEN [ok |-> TRUE, err |-> NoError, books |-> books]
    ELSE LET r == ParseArticle(articles[i])
         IN  IF r.ok
             THEN ParseFrom(articles, i + 1, books \o r.book)
             ELSE [ok |-> FALSE, err |-> r.err, books |-> <<>>]

\* parse_books(html): html is the sequence of product nodes of the page
parse_books(html) == ParseFrom(html, 1, <<>>)

-----------------------------------------------------------------------------
(* get_page and the URLs of scrape_books *)

BASE_URL == "https://books.toscrape.com/"

\* UrlOf with the template used for page 1 as well
UrlOfTemplateOnly(k) ==
    [url |-> "https://books.toscrape.com/catalogue/page-{n}.html", n |-> k]

\* lines 77-80: the URL of a page; n is the number put into the template
UrlOf(k) ==
    IF k = 1 THEN [url |-> BASE_URL, n |-> 0]
    ELSE [url |-> "https://books.toscrape.com/catalogue/page-{n}.html", n |-> k]

\* what the site answers to one GET
FailureKinds == {"connection_error", "timeout", "http_error"}

Failure(kind) == [kind |-> kind, html |-> <<>>]

Page(html) == [kind |-> "ok", html |-> html]

\* get_page without raise_for_status: an error page is returned as text
get_page_unchecked(resp) ==
    CASE resp.kind = "connection_error" ->
             [ok |-> FALSE, html |-> <<>>,
              err |-> Raise("get_page", 28, "ConnectionError", <<>>)]
      [] resp.kind = "timeout" ->
             [ok |-> FALSE, html |-> <<>>,
              err |-> Raise("get_page", 28, "Timeout", <<>>)]
      [] OTHER -> [ok |-> TRUE, html |-> resp.html, err |-> NoError]

\* lines 28-30: requests.get raises on a connection failure or a timeout,
\* raise_for_status on a non-success status; otherwise the text is returned
get_page(resp) ==
    CASE resp.kind = "connection_error" ->
             [ok |-> FALSE, html |-> <<>>,
              err |-> Raise("get_page", 28, "ConnectionError", <<>>)]
      [] resp.kind = "timeout" ->
             [ok |-> FALSE, html |-> <<>>,
              err |-> Raise("get_page", 28, "Timeout", <<>>)]
      [] resp.kind = "http_error" ->
             [ok |-> FALSE, html |-> <<>>,
              err |-> Raise("get_page", 29, "HTTPError", <<>>)]
      [] OTHER -> [ok |-> TRUE, html |-> resp.html, err |-> NoError]

-----------------------------------------------------------------------------
(* The table: pd.DataFrame(all_books) and the price_clean column *)

\* Extend that keeps one record per title
ExtendUnique(books, page_books) ==
    books \o SelectSeq(page_books,
                       LAMBDA b : \A i \in 1..Len(books) : books[i].title # b.title)

\* line 85: all_books.extend(page_books)
Extend(books, page_books) == books \o page_books

\* AsFloat with a default of 0 for a text float() rejects
RECURSIVE AsFloatCoercing(_, _, _)
AsFloatCoercing(texts, i, out) ==
    IF i > Len(texts) THEN [ok |-> TRUE, err |-> NoError, values |-> out]
    ELSE IF IsFloatLiteral(texts[i])
    THEN AsFloatCoercing(texts, i + 1, Append(out, ParseFloat(texts[i])))
    ELSE AsFloatCoercing(texts, i + 1, Append(out, [num |-> 0, scale |-> 0]))

\* line 94: .astype(float) converts the column in row order and raises on
\* the first text float() rejects, naming that (filtered) text
RECURSIVE AsFloat(_, _, _)
AsFloat(texts, i, out) ==
    IF i > Len(texts) THEN [ok |-> TRUE, err |-> NoError, values |-> out]
    ELSE IF IsFloatLiteral(texts[i])
    THEN AsFloat(texts, i + 1, Append(out, ParseFloat(texts[i])))
    ELSE [ok |-> FALSE, values |-> <<>>,
          err |-> Raise("scrape_books", 94, "ValueError", texts[i])]

\* HasPriceColumn for a frame that always has its columns
HasPriceColumnAlways(books) == TRUE

\* lines 87, 92: pd.DataFrame(all_books) has the column price_raw when
\* there is a record to take the keys from
HasPriceColumn(books) == books # <<>>

\* lines 87-98: df["price_raw"] raises KeyError on a frame without the
\* column; otherwise the filtered column is converted and attached as
\* price_clean
PriceClean(books) ==
    IF ~HasPriceColumn(books)
    THEN [ok |-> FALSE, table |-> <<>>,
          err |-> Raise("scrape_books", 92, "KeyError", <<"price_raw">>)]
    ELSE LET filtered == [i \in 1..Len(books) |-> StripPrice(books[i].price_raw)]
             r == AsFloat(filtered, 1, <<>>)
         IN  IF r.ok
             THEN [ok |-> TRUE, err |-> NoError,
                   table |-> [i \in 1..Len(books) |->
                                 [title        |-> books[i].title,
                                  price_raw    |-> books[i].price_raw,
                                  availability |-> books[i].availability,
                                  rating       |-> books[i].rating,
                                  price_clean  |-> r.values[i]]]]
             ELSE [ok |-> FALSE, err |-> r.err, table |-> <<>>]

-----------------------------------------------------------------------------
(* The pages the site may serve in Spec *)

PoundPrice == <<"£", "5", "1", ".", "7", "7">>

MisencodedPrice == <<"Â", "£", "1", "0", ".", "0", "0">>

NoDigitPrice == <<"a", "b", "c">>

TwoPointPrice == <<"£", "1", ".", "2", ".", "3">>

InStock == <<"\n", " ", "I", "n", " ", "s", "t", "o", "c", "k", "\n">>

Blank == <<"\n", " ">>

Present(text) == [present |-> TRUE, text |-> text]

Absent == [present |-> FALSE, text |-> <<>>]

Stars(tokens) == [present |-> TRUE, class |-> tokens]

NoStars == [present |-> FALSE, class |-> <<>>]

Book ==
    [heading |-> "ok", title |-> "A Light in the Attic",
     price |-> Present(PoundPrice), avail |-> Present(InStock),
     rating |-> Stars(<<"star-rating", "Three">>)]

\* nodes whose extraction succeeds
GoodArticles ==
    { Book,
      [Book EXCEPT !.price = Present(MisencodedPrice), !.rating = NoStars],
      [Book EXCEPT !.rating = Stars(<<"star-rating">>)],
      [Book EXCEPT !.rating = Stars(<<"star-rating", "Zero">>)],
      [Book EXCEPT !.title = ""],
      [Book EXCEPT !.avail = Present(Blank)],
      [Book EXCEPT !.price = Present(NoDigitPrice)],
      [Book EXCEPT !.price = Present(TwoPointPrice)] }

\* nodes lacking a required element
BrokenArticles ==
    { [Book EXCEPT !.heading = "no_h3", !.title = ""],
      [Book EXCEPT !.heading = "no_a", !.title = ""],
      [Book EXCEPT !.heading = "no_title", !.title = ""],
      [Book EXCEPT !.price = Absent],
      [Book EXCEPT !.avail = Absent] }

Articles == GoodArticles \cup BrokenArticles

RECURSIVE SeqsUpTo(_, _)
SeqsUpTo(S, n) ==
    IF n = 0 THEN {<<>>}
    ELSE LET shorter == SeqsUpTo(S, n - 1)
         IN  shorter \cup {Append(q, x) : q \in shorter, x \in S}

\* the product nodes served so far
RECURSIVE ArticlesServed(_)
ArticlesServed(resps) ==
    IF resps = <<>> THEN 0
    ELSE Len(Head(resps).html) + ArticlesServed(Tail(resps))

\* the markups the site can still serve within MaxArticles
Htmls == SeqsUpTo(Articles, MaxArticles - ArticlesServed(served))

PageCounts == (0 - 1)..MaxPages

-----------------------------------------------------------------------------
(* scrape_books *)

NoTable == <<>>

Init ==
    /\ pc = "idle"
    /\ num_pages = 0
    /\ page = 0
    /\ all_books = <<>>
    /\ fetched = <<>>
    /\ served = <<>>
    /\ df = NoTable
    /\ error = NoError

\* the pc after an iteration for page p of range(1, n + 1)
AfterPage(p, n) == IF p + 1 <= n THEN "loop" ELSE "clean"

\* lines 74-76: scrape_books(n) is called
Call(n) ==
    /\ pc = "idle"
    /\ num_pages' = n
    /\ page' = 1
    /\ all_books' = <<>>
    /\ pc' = AfterPage(0, n)
    /\ UNCHANGED <<fetched, served, df, error>>

\* lines 77-82: get_page(url) raises; the exception leaves scrape_books
FetchRaises(resp) ==
    LET got == get_page(resp)
    IN  /\ pc = "loop"
        /\ ~got.ok
        /\ fetched' = Append(fetched, UrlOf(page))
        /\ served' = Append(served, resp)
        /\ error' = got.err
        /\ pc' = "raised"
        /\ UNCHANGED <<num_pages, page, all_books, df>>

\* lines 77-83: the page is fetched and parse_books raises on it
ParseRaises(resp) ==
    LET got == get_page(resp)
        parsed == parse_books(got.html)
    IN  /\ pc = "loop"
        /\ got.ok
        /\ ~parsed.ok
        /\ fetched' = Append(fetched, UrlOf(page))
        /\ served' = Append(served, resp)
        /\ error' = parsed.err
        /\ pc' = "raised"
        /\ UNCHANGED <<num_pages, page, all_books, df>>

\* lines 77-85: the page is fetched and parsed, its records are appended
PageDone(resp) ==
    LET got == get_page(resp)
        parsed == parse_books(got.html)
    IN  /\ pc = "loop"
        /\ got.ok
        /\ parsed.ok
        /\ fetched' = Append(fetched, UrlOf(page))
        /\ served' = Append(served, resp)
        /\ all_books' = Extend(all_books, parsed.books)
        /\ page' = page + 1
        /\ pc' = AfterPage(page, num_pages)
        /\ UNCHANGED <<num_pages, df, error>>

\* lines 87-95: building the frame or the price_clean column raises
CleanRaises ==
    LET cleaned == PriceClean(all_books)
    IN  /\ pc = "clean"
        /\ ~cleaned.ok
        /\ error' = cleaned.err
        /\ pc' = "raised"
        /\ UNCHANGED <<num_pages, page, all_books, fetched, served, df>>

\* lines 87-98: the frame with its price_clean column is returned
Return ==
    LET cleaned == PriceClean(all_books)
    IN  /\ pc = "clean"
        /\ cleaned.ok
        /\ df' = cleaned.table
        /\ pc' = "returned"
        /\ UNCHANGED <<num_pages, page, all_books, fetched, served, error>>

Responses == {Failure(k) : k \in FailureKinds} \cup {Page(h) : h \in Htmls}

Next ==
    \/ \E n \in PageCounts : Call(n)
    \/ (pc = "loop" /\ \E resp \in Responses : FetchRaises(resp))
    \/ (pc = "loop" /\ \E resp \in Responses : ParseRaises(resp))
    \/ (pc = "loop" /\ \E resp \in Responses : PageDone(resp))
    \/ CleanRaises
    \/ Return

Spec == Init /\ [][Next]_vars

-----------------------------------------------------------------------------
(* SpecNorm: the price cleaning on every price text up to MaxLen            *)
(* characters. The run starts where scrape_books(1) has fetched and parsed  *)
(* a page with one product node carrying that text.                        *)

PriceAlphabet == {"0", "5", ".", "£", "-"}

PriceTexts == SeqsUpTo(PriceAlphabet, MaxLen)

InitNorm ==
    \E text \in PriceTexts :
        LET html == <<[Book EXCEPT !.price = Present(text)]>>
        IN  /\ pc = "clean"
            /\ num_pages = 1
            /\ page = 2
            /\ all_books = Extend(<<>>, parse_books(html).books)
            /\ fetched = <<UrlOf(1)>>
            /\ served = <<Page(html)>>
            /\ df = NoTable
            /\ error = NoError

NextNorm ==
    \/ CleanRaises
    \/ Return

SpecNorm == InitNorm /\ [][NextNorm]_vars

-----------------------------------------------------------------------------
(* Vocabulary of the properties *)

\* the run has ended: a table was returned or an exception left scrape_books
Finished == pc \in {"returned", "raised"}

\* the three fatal outcomes, by the place the exception is raised
IsFetchError(e) == e.raised_in = "get_page"

IsParseError(e) == e.raised_in = "parse_books"

IsNormalizationError(e) == e.raised_in = "scrape_books" /\ e.type = "ValueError"

\* every page of range(1, num_pages + 1) was fetched and parsed
LoopCompleted ==
    \/ pc \in {"clean", "returned"}
    \/ pc = "raised" /\ error.raised_in = "scrape_books"

\* a node lacking its heading, anchor, title attribute, price or stock element
Lacking(art) ==
    art.heading # "ok" \/ ~art.price.present \/ ~art.avail.present

\* page k was served and its extraction did not raise
Parsed(k) ==
    /\ k \in 1..Len(served)
    /\ served[k].kind = "ok"
    /\ (k < Len(served) \/ pc # "raised" \/ error.raised_in = "scrape_books")

\* the number of records the pages before page k yielded
RECURSIVE NodesBefore(_)
NodesBefore(k) ==
    IF k <= 1 THEN 0 ELSE NodesBefore(k - 1) + Len(served[k - 1].html)

\* a price text whose digits and points form a number
RECURSIVE Kept(_)
Kept(s) ==
    IF s = <<>> THEN <<>>
    ELSE IF Head(s) \in Digits \/ Head(s) = "."
    THEN <<Head(s)>> \o Kept(Tail(s))
    ELSE Kept(Tail(s))

Numeric(s) ==
    /\ \E i \in 1..Len(s) : s[i] \in Digits
    /\ \A i, j \in 1..Len(s) : (s[i] = "." /\ s[j] = ".") => i = j
    /\ \A i \in 1..Len(s) : s[i] \in Digits \/ s[i] = "."

BadPrice(raw) == ~Numeric(Kept(raw))

-----------------------------------------------------------------------------
(* C1 *)

\* the URL the k-th fetch is to target
PageUrl(k) ==
    IF k = 1 THEN [url |-> "https://books.toscrape.com/", n |-> 0]
    ELSE [url |-> "https://books.toscrape.com/catalogue/page-{n}.html", n |-> k]

C1_UrlsInOrder ==
    /\ Len(fetched) = Len(served)
    /\ \A k \in 1..Len(fetched) : fetched[k] = PageUrl(k)
    /\ \A i, j \in 1..Len(fetched) : fetched[i] = fetched[j] => i = j
    /\ Len(fetched) <= IF num_pages >= 1 THEN num_pages ELSE 0
    /\ (LoopCompleted /\ num_pages >= 1) => Len(fetched) = num_pages

C1_OneAtATime ==
    \/ fetched' = fetched
    \/ /\ Len(fetched') = Len(fetched) + 1
       /\ SubSeq(fetched', 1, Len(fetched)) = fetched

\* C1: a run of scrape_books(N), N >= 1, in which no fetch and no parse
\* fails issues exactly N fetches, one per step and in page order: the k-th
\* targets the root URL for k = 1 and the page-k template URL for k >= 2, no
\* URL twice, whatever the pages contain.
C1_FetchSequence == [] C1_UrlsInOrder /\ [][C1_OneAtATime]_vars

C1_Witness ==
    /\ pc = "returned"
    /\ num_pages >= 2
    /\ Len(fetched) = num_pages
    /\ served[1].html # served[2].html

-----------------------------------------------------------------------------
(* C2 *)

\* the Record Extractor outputs of pages 1..k, one after the other
RECURSIVE ConcatPages(_)
ConcatPages(k) ==
    IF k = 0 THEN <<>>
    ELSE ConcatPages(k - 1) \o parse_books(served[k].html).books

\* the four scraped columns of a table
RawColumns(table) ==
    [i \in 1..Len(table) |->
        [title        |-> table[i].title,
         price_raw    |-> table[i].price_raw,
         availability |-> table[i].availability,
         rating       |-> table[i].rating]]

AllPricesNumeric == \A i \in 1..Len(all_books) : ~BadPrice(all_books[i].price_raw)

\* C2: for every N >= 1 and every content of pages 1..N, scrape_books(N)
\* returns a table that is the concatenation of the per-page extractor
\* outputs, in page order then node order, with as many rows as the pages
\* have records, also when every page has none; nothing is dropped,
\* reordered or deduplicated.
C2_TableIsConcatenation ==
    (Finished /\ num_pages >= 1 /\ LoopCompleted /\ AllPricesNumeric)
        => /\ pc = "returned"
           /\ RawColumns(df) = ConcatPages(num_pages)
           /\ Len(df) = NodesBefore(num_pages + 1)

\* the same, for the runs that gathered at least one record
C2_NonEmptyConcatenation ==
    (Finished /\ num_pages >= 1 /\ LoopCompleted /\ AllPricesNumeric
        /\ all_books # <<>>)
        => /\ pc = "returned"
           /\ RawColumns(df) = ConcatPages(num_pages)
           /\ Len(df) = NodesBefore(num_pages + 1)

C2_DuplicateTitlesKept ==
    /\ pc = "returned"
    /\ num_pages = 2
    /\ Len(served[1].html) = 1
    /\ Len(df) >= 2
    /\ df[1].title = df[2].title

-----------------------------------------------------------------------------
(* C3 *)

\* C3: when the fetch of page k fails, the run ends in a FetchError: the
\* failed URL is requested once, no later page is requested, no table is
\* returned and the records of pages 1..k-1 are not delivered.
C3_FetchFailureAborts ==
    \A k \in 1..Len(served) :
        served[k].kind \in FailureKinds
            => /\ k = Len(served)
               /\ Len(fetched) = k
               /\ \A j \in 1..(k - 1) : fetched[j] # fetched[k]
               /\ pc = "raised"
               /\ IsFetchError(error)
               /\ df = NoTable

C3_Witness ==
    /\ pc = "raised"
    /\ num_pages > Len(served)
    /\ Len(served) = 2
    /\ served[2].kind = "http_error"
    /\ all_books # <<>>

-----------------------------------------------------------------------------
(* C4 *)

\* C4: a product node without its heading, anchor or title attribute, its
\* price element or its stock element makes parse_books raise; the page
\* contributes no record, not even those of its earlier nodes, no table is
\* returned and no further page is fetched.
C4_MissingElementAborts ==
    \A k \in 1..Len(served) :
        (served[k].kind = "ok"
            /\ \E i \in 1..Len(served[k].html) : Lacking(served[k].html[i]))
            => /\ k = Len(served)
               /\ pc = "raised"
               /\ IsParseError(error)
               /\ df = NoTable
               /\ Len(all_books) = NodesBefore(k)

C4_Witness ==
    /\ pc = "raised"
    /\ num_pages > Len(served)
    /\ Len(served) = 1
    /\ Len(served[1].html) = 2
    /\ ~Lacking(served[1].html[1])
    /\ ~served[1].html[2].price.present

-----------------------------------------------------------------------------
(* C5 *)

\* the record made from node i of page k
RecordOf(k, i) == all_books[NodesBefore(k) + i]

\* C5: a node whose rating element is absent or has fewer than two class
\* tokens yields rating = None without an exception, its other fields are
\* extracted as usual and the other records of the page are unaffected;
\* with two or more tokens the rating is the second token.
C5_RatingDegrades ==
    \A k \in 1..Len(served) :
        /\ (served[k].kind = "ok"
               /\ \A i \in 1..Len(served[k].html) : ~Lacking(served[k].html[i]))
               => Parsed(k)
        /\ Parsed(k) =>
             \A i \in 1..Len(served[k].html) :
                LET art == served[k].html[i]
                    rec == RecordOf(k, i)
                IN  /\ (~art.rating.present \/ Len(art.rating.class) < 2)
                          => rec.rating = None
                    /\ (art.rating.present /\ Len(art.rating.class) >= 2)
                          => rec.rating = Some(art.rating.class[2])
                    /\ rec.title = art.title
                    /\ rec.price_raw = get_text(art.price.text)
                    /\ rec.availability = get_text(art.avail.text)

C5_Witness ==
    /\ Len(served) = 1
    /\ Parsed(1)
    /\ Len(served[1].html) = 2
    /\ served[1].html[1].rating.class = <<"star-rating">>
    /\ ~served[1].html[2].rating.present
    /\ all_books[1].rating = None
    /\ all_books[2].rating = None
    /\ all_books[2].price_raw = MisencodedPrice

-----------------------------------------------------------------------------
(* C6 *)

SomeBadPrice == \E i \in 1..Len(all_books) : BadPrice(all_books[i].price_raw)

\* the first record, in table order, whose price text is not numeric
FirstBadPrice ==
    CHOOSE i \in 1..Len(all_books) :
        /\ BadPrice(all_books[i].price_raw)
        /\ \A j \in 1..(i - 1) : ~BadPrice(all_books[j].price_raw)

\* C6: if the price_raw of any record of the run, reduced to its digits and
\* points, is empty, has several points or is otherwise no decimal number,
\* scrape_books fails with a NormalizationError that identifies the raw
\* string; no table is returned and no default value is substituted.
C6_BadPriceIsNormalizationError ==
    (Finished /\ SomeBadPrice)
        => /\ pc = "raised"
           /\ IsNormalizationError(error)
           /\ \E i \in 1..Len(all_books) :
                 /\ BadPrice(all_books[i].price_raw)
                 /\ error.detail = all_books[i].price_raw
           /\ df = NoTable

\* C6 as amended: once every page is fetched and parsed, a record with such
\* a price makes the price cleaning raise ValueError at the float
\* conversion, naming the filtered text of the first such record; a run
\* with such a record never returns a table, whichever exception ends it.
C6_BadPriceRaisesOnFilteredText ==
    /\ (Finished /\ SomeBadPrice) => (pc = "raised" /\ df = NoTable)
    /\ (Finished /\ SomeBadPrice /\ LoopCompleted)
          => /\ IsNormalizationError(error)
             /\ error.line = 94
             /\ error.detail = Kept(all_books[FirstBadPrice].price_raw)

C6_Witness ==
    /\ pc = "raised"
    /\ IsNormalizationError(error)
    /\ Len(all_books) = 2
    /\ all_books[1].price_raw = TwoPointPrice
    /\ all_books[2].price_raw = NoDigitPrice
    /\ error.detail = <<"1", ".", "2", ".", "3">>

-----------------------------------------------------------------------------
(* C8 *)

\* C8: every row of a returned table has a numeric price_clean, a non-empty
\* title and a non-empty availability, also for a node whose title
\* attribute is empty or whose stock element holds only blanks.
C8_ColumnsWellFormed ==
    pc = "returned"
        => \A i \in 1..Len(df) :
              /\ df[i].price_clean.num >= 0
              /\ df[i].title # ""
              /\ df[i].availability # <<>>

-----------------------------------------------------------------------------
(* C9 *)

RatingWords == {"One", "Two", "Three", "Four", "Five"}

InVocabulary(rating) == rating = None \/ rating[1] \in RatingWords

-----------------------------------------------------------------------------
(* C10 *)

\* C10: scrape_books returns no empty table: when the loop ends with no
\* record (pages without product nodes, or num_pages <= 0 and no fetch at
\* all) the price cleaning raises on the missing price_raw column, so a
\* returned table has at least one row.
C10_NoEmptyTable ==
    /\ pc = "returned" => Len(df) >= 1
    /\ num_pages <= 0 => fetched = <<>>
    /\ (Finished /\ LoopCompleted /\ all_books = <<>>)
          => /\ pc = "raised"
             /\ error = Raise("scrape_books", 92, "KeyError", <<"price_raw">>)
             /\ df = NoTable

C10_Witness ==
    /\ pc = "raised"
    /\ num_pages = 2
    /\ Len(served) = 2
    /\ served[1].html = <<>>
    /\ served[2].html = <<>>
    /\ error.type = "KeyError"

-----------------------------------------------------------------------------
(* C7, under SpecNorm *)

NoiseOnly(p) == \A i \in 1..Len(p) : ~(p[i] \in Digits \/ p[i] = ".")

\* C7: the price cleaning keeps exactly the digits and points of price_raw,
\* in order, and parses them: a prefix of other characters before a clean
\* numeric text does not change the value, filtering a filtered text changes
\* nothing, and the value is never negative, a minus sign being removed.
C7_PriceNormalizer ==
    LET raw == all_books[1].price_raw
    IN  /\ pc = "returned"
            => /\ df[1].price_clean = ParseFloat(Kept(raw))
               /\ df[1].price_clean.num >= 0
               /\ StripPrice(StripPrice(raw)) = StripPrice(raw)
        /\ pc = "raised"
            => /\ error.detail = Kept(raw)
               /\ StripPrice(error.detail) = error.detail
        /\ Finished
            => \A n \in 0..Len(raw) :
                  LET p == SubSeq(raw, 1, n)
                      t == SubSeq(raw, n + 1, Len(raw))
                  IN  (NoiseOnly(p) /\ Numeric(t))
                         => /\ pc = "returned"
                            /\ df[1].price_clean = ParseFloat(t)

C7_Witness ==
    /\ pc = "returned"
    /\ all_books[1].price_raw = <<"£", "-", ".", "5">>
    /\ df[1].price_clean = [num |-> 5, scale |-> 1]

====
